---------------------------- MODULE Spec2Model ----------------------------
(***************************************************************************)
(* Model of the Forecast-Insight service (src/app.py): the module-level    *)
(* construction of the generation client, the POST                         *)
(* /generate-ai-observations handler and the GET /health handler.          *)
(*                                                                         *)
(* Texts are sequences of tokens (strings).  A single space " " and a      *)
(* newline "\n" are whitespace tokens of their own, so that joining,       *)
(* splitting and stripping are computed as the code computes them.         *)
(***************************************************************************)
EXTENDS Integers, Sequences, FiniteSets, TLC

(***************************************************************************)
(* Bounds of the model.                                                    *)
(***************************************************************************)
MaxEntries == 2     \* longest forecastData list a request carries
MaxFailures == 2    \* the count of upstream failures saturates here

(***************************************************************************)
(* Values of JSON fields.  t is the JSON type: "int" (c is the integer),   *)
(* "dec" (a number with two decimals, c is the amount in hundredths),      *)
(* "str" (the string "N/A") or "null".                                     *)
(***************************************************************************)
IntV(n) == [t |-> "int", c |-> n]
DecV(n) == [t |-> "dec", c |-> n]
StrV == [t |-> "str", c |-> 0]
NullV == [t |-> "null", c |-> 0]

\* src/app.py:65-67
required_keys ==
    << "year", "investment", "amcCost", "revenue", "savings",
       "totalRevenueSavings", "cumulativeTotalCost",
       "netProfitLoss", "cumulativeProfitLoss" >>

Keys == { required_keys[j] : j \in 1..Len(required_keys) }

(***************************************************************************)
(* Exceptions: the class and str(e).                                       *)
(***************************************************************************)
NoExc == [type |-> "none", msg |-> ""]
Exc(ty, m) == [type |-> ty, msg |-> m]

(***************************************************************************)
(* Sample rows (the values a request's entries carry).  Row1 is the        *)
(* example of the specification; Row2 has a zero, decimals and negatives.  *)
(***************************************************************************)
Row1 ==
    [ year |-> IntV(1), investment |-> IntV(1000), amcCost |-> IntV(200),
      revenue |-> IntV(1500), savings |-> IntV(100),
      totalRevenueSavings |-> IntV(1600), cumulativeTotalCost |-> IntV(1200),
      netProfitLoss |-> IntV(400), cumulativeProfitLoss |-> IntV(400) ]

Row2 ==
    [ year |-> IntV(2), investment |-> IntV(0), amcCost |-> DecV(20050),
      revenue |-> DecV(5), savings |-> DecV(9999),
      totalRevenueSavings |-> DecV(10004), cumulativeTotalCost |-> DecV(140050),
      netProfitLoss |-> DecV(-10046), cumulativeProfitLoss |-> IntV(-2) ]

RowStr == [Row1 EXCEPT !["investment"] = StrV]
RowNull == [Row2 EXCEPT !["cumulativeProfitLoss"] = NullV]

(***************************************************************************)
(* Entries of forecastData.  kind "obj" is a JSON object whose keys are    *)
(* `keys` and whose values are `vals`; kind "arr" is a JSON array (or      *)
(* string) whose members are the strings `keys`; kind "scalar" is a JSON   *)
(* number, boolean or null.                                                *)
(***************************************************************************)
Obj(ks, vs) == [kind |-> "obj", keys |-> ks, vals |-> vs]
Arr(ks) == [kind |-> "arr", keys |-> ks, vals |-> Row1]
Scalar == [kind |-> "scalar", keys |-> {}, vals |-> Row1]

\* one object per single missing key, and objects lacking several keys
Incomplete ==
    { Obj(Keys \ {k}, Row1) : k \in Keys }
        \cup { Obj(Keys \ {"investment", "savings"}, Row2),
               Obj(Keys \ {"year", "cumulativeProfitLoss"}, Row2),
               Obj({}, Row1) }

Entries ==
    { Obj(Keys, Row1), Obj(Keys, Row2) }
        \cup Incomplete
        \cup { Obj(Keys, RowStr), Obj(Keys, RowNull) }
        \cup { Arr(Keys), Arr({"year"}), Scalar }

RECURSIVE SeqsUpTo(_, _)
SeqsUpTo(S, n) ==
    IF n = 0 THEN {<< >>}
    ELSE LET shorter == SeqsUpTo(S, n - 1)
         IN  shorter \cup { Append(s, e) : s \in { t \in shorter : Len(t) = n - 1 }, e \in S }

(***************************************************************************)
(* Requests.  body is "malformed" (the bytes are not JSON), "array" (JSON, *)
(* but not an object) or "object"; fd is what the object holds under       *)
(* "forecastData": "absent", "empty" ([], null, 0, ""), "number" (a        *)
(* non-zero number or true) or "list" (the non-empty list `entries`).      *)
(***************************************************************************)
Req(b, f, es) == [body |-> b, fd |-> f, entries |-> es]
NoReq == Req("none", "absent", << >>)

Requests ==
    { Req("malformed", "absent", << >>), Req("array", "absent", << >>),
      Req("object", "absent", << >>), Req("object", "empty", << >>),
      Req("object", "number", << >>) }
        \cup { Req("object", "list", es) : es \in SeqsUpTo(Entries, MaxEntries) \ {<< >>} }


(***************************************************************************)
(* Formatting of values (src/app.py:76-79).                                *)
(***************************************************************************)
Abs(n) == IF n < 0 THEN 0 - n ELSE n

TwoDigits(n) == IF n < 10 THEN "0" \o ToString(n) ELSE ToString(n)

Sign(n) == IF n < 0 THEN "-" ELSE ""

\* f"{v}": str() of a JSON value (the year is interpolated without a format)
Str(v) ==
    CASE v.t = "int" -> ToString(v.c)
      [] v.t = "dec" ->
            Sign(v.c) \o ToString(Abs(v.c) \div 100) \o "."
                \o (IF Abs(v.c) % 10 = 0 THEN ToString((Abs(v.c) % 100) \div 10)
                                        ELSE TwoDigits(Abs(v.c) % 100))
      [] v.t = "str" -> "N/A"
      [] OTHER -> "None"

\* f"{v:.2f}": a number with exactly two decimals, or the exception raised
Format2f(v) ==
    CASE v.t = "int" -> [ok |-> TRUE, text |-> ToString(v.c) \o ".00", exc |-> NoExc]
      [] v.t = "dec" ->
            [ok |-> TRUE,
             text |-> Sign(v.c) \o ToString(Abs(v.c) \div 100) \o "."
                         \o TwoDigits(Abs(v.c) % 100),
             exc |-> NoExc]
      [] v.t = "str" ->
            [ok |-> FALSE, text |-> "",
             exc |-> Exc("ValueError", "Unknown format code 'f' for object of type 'str'")]
      [] OTHER ->
            [ok |-> FALSE, text |-> "",
             exc |-> Exc("TypeError", "unsupported format string passed to NoneType.__format__")]

\* the literal text in front of each interpolated field of a line
Label ==
    << "Year ", ": Investment = $", ", AMC Cost = $", ", Revenue = $",
       ", Cost Savings = $", ", Total Revenue & Savings = $",
       ", Cumulative Cost = $", ", Net Profit/Loss = $",
       ", Cumulative Profit/Loss = $" >>

\* the interpolation of field j of an entry that is a JSON object
Field(entry, j) ==
    IF j = 1
    THEN [ok |-> TRUE, text |-> Str(entry.vals[required_keys[1]]), exc |-> NoExc]
    ELSE Format2f(entry.vals[required_keys[j]])

\* fields j.. of the line, appended to acc; the first failing field raises
RECURSIVE RenderFrom(_, _, _)
RenderFrom(entry, j, acc) ==
    IF j > Len(required_keys)
    THEN [ok |-> TRUE, text |-> acc, exc |-> NoExc]
    ELSE LET f == Field(entry, j)
         IN  IF f.ok
             THEN RenderFrom(entry, j + 1, acc \o << Label[j], f.text >>)
             ELSE [ok |-> FALSE, text |-> << >>, exc |-> f.exc]

\* one line of the summary: the f-string of lines 76-79
RenderLine(entry) ==
    IF entry.kind = "obj"
    THEN RenderFrom(entry, 1, << >>)
    ELSE [ok |-> FALSE, text |-> << >>,
          exc |-> Exc("TypeError", "list indices must be integers or slices, not str")]

\* a comprehension that puts each new line in front of the earlier ones
RECURSIVE RenderAllPrepends(_, _, _)
RenderAllPrepends(data, i, acc) ==
    IF i > Len(data)
    THEN [ok |-> TRUE, lines |-> acc, exc |-> NoExc]
    ELSE LET l == RenderLine(data[i])
         IN  IF l.ok
             THEN RenderAllPrepends(data, i + 1, << l.text >> \o acc)
             ELSE [ok |-> FALSE, lines |-> << >>, exc |-> l.exc]

\* the list comprehension of lines 75-81: the lines in input order
RECURSIVE RenderAll(_, _, _)
RenderAll(data, i, acc) ==
    IF i > Len(data)
    THEN [ok |-> TRUE, lines |-> acc, exc |-> NoExc]
    ELSE LET l == RenderLine(data[i])
         IN  IF l.ok
             THEN RenderAll(data, i + 1, Append(acc, l.text))
             ELSE [ok |-> FALSE, lines |-> << >>, exc |-> l.exc]

\* "\n".join(lines)
RECURSIVE Join(_)
Join(lines) ==
    IF lines = << >> THEN << >>
    ELSE IF Len(lines) = 1 THEN lines[1]
    ELSE lines[1] \o << "\n" >> \o Join(Tail(lines))

\* forecast_summary (lines 75-81)
forecast_summary(data) ==
    LET r == RenderAll(data, 1, << >>)
    IN  IF r.ok THEN [ok |-> TRUE, text |-> Join(r.lines), exc |-> NoExc]
        ELSE [ok |-> FALSE, text |-> << >>, exc |-> r.exc]


(***************************************************************************)
(* The prompt (src/app.py:83-107): the fixed template around the summary.  *)
(* The pictographs of lines 94, 104 and 105 are left out of the literals.  *)
(***************************************************************************)
PromptHead ==
    << "You are a financial analyst with expertise in return on investment (ROI) forecasting. Analyze the following financial forecast and provide **concise, data-driven** insights. Each point must be **a maximum of four lines**, covering all relevant data from the forecast. Insights should include **both quarterly and yearly trends**, backed by **specific numerical values**. Ensure the response follows the structured format below.",
       "\n", "\n", "#### **Financial Data:**", "\n" >>

PromptTail ==
    << "\n", "\n", "#### **Your Analysis Should Cover:**", "\n",
       "Provide exactly **4 key insights** and **1 two-line conclusion** (always include ROI Trends and Break-even Point) in the following structured format:",
       "\n", "\n", "---", "\n", "## **Key Insights**", "\n", "\n",
       "- **Quarterly ROI growth** starts at **2.5% in Q1**, rising to **7% in Q4**, leading to an annual ROI of **28%** in Year 1. By Year 3, **quarterly ROI stabilizes at 9%**, pushing the annual ROI to **120%**.",
       "\n", "\n",
       "- **Break-even is reached in Q2 of Year 2**, when revenue crosses **$450,000**, surpassing cumulative costs of **$380,000**. By Year 3, net profit reaches **$150,000 per quarter**, ensuring long-term stability.",
       "\n", "\n",
       "- **Compared to industry benchmarks**, projected ROI exceeds the **95% 3-year industry average** by **15%**, with **quarterly cost efficiency improving by 5% per quarter**, strengthening profit margins.",
       "\n", "\n",
       "- **High Year 1 operational costs** of **$100,000 per quarter** exceed projections by **20%**, but automation reduces quarterly expenses by **$10,000 from Q3 onward**, leading to **total savings of $200,000 over 5 years**.",
       "\n", "\n", "---", "\n", "## **Conclusion**", "\n",
       "**ROI reaches 120% in 3 years, with quarterly gains stabilizing at 9%. Break-even in Q2 of Year 2 ensures sustainable profits, while automation-driven savings boost cost efficiency long-term.**" >>

BuildPrompt(summary) == PromptHead \o summary \o PromptTail

(***************************************************************************)
(* Outcomes of a block of the handler: it returns a response, raises, or   *)
(* goes on to the provider call with the prompt.                           *)
(***************************************************************************)
Return(st, fld, txt) ==
    [kind |-> "return", status |-> st, field |-> fld, text |-> txt,
     exc |-> NoExc, prompt |-> << >>]

Raise(e) ==
    [kind |-> "raise", status |-> 0, field |-> "", text |-> << >>,
     exc |-> e, prompt |-> << >>]

Call(p) ==
    [kind |-> "call", status |-> 0, field |-> "", text |-> << >>,
     exc |-> NoExc, prompt |-> p]

(***************************************************************************)
(* The validation loop (src/app.py:69-72): entries in input order, within  *)
(* an entry the keys in the order of required_keys; the first missing key  *)
(* ends the scan.  `key not in entry` raises on a number, boolean or null. *)
(***************************************************************************)
\* a scan that tries the keys of an entry from the last to the first
RECURSIVE ValidateReversedKeys(_, _, _)
ValidateReversedKeys(data, i, j) ==
    IF i > Len(data) THEN [kind |-> "ok", key |-> "", exc |-> NoExc]
    ELSE IF j > Len(required_keys) THEN ValidateReversedKeys(data, i + 1, 1)
    ELSE IF data[i].kind = "scalar"
         THEN [kind |-> "raise", key |-> "",
               exc |-> Exc("TypeError", "argument of type 'int' is not iterable")]
    ELSE IF required_keys[Len(required_keys) + 1 - j] \notin data[i].keys
         THEN [kind |-> "missing", key |-> required_keys[Len(required_keys) + 1 - j],
               exc |-> NoExc]
    ELSE ValidateReversedKeys(data, i, j + 1)

RECURSIVE Validate(_, _, _)
Validate(data, i, j) ==
    IF i > Len(data) THEN [kind |-> "ok", key |-> "", exc |-> NoExc]
    ELSE IF j > Len(required_keys) THEN Validate(data, i + 1, 1)
    ELSE IF data[i].kind = "scalar"
         THEN [kind |-> "raise", key |-> "",
               exc |-> Exc("TypeError", "argument of type 'int' is not iterable")]
    ELSE IF required_keys[j] \notin data[i].keys
         THEN [kind |-> "missing", key |-> required_keys[j], exc |-> NoExc]
    ELSE Validate(data, i, j + 1)

\* lines 64-107: validation, summary and prompt of a non-empty list
Prepare(data) ==
    LET v == Validate(data, 1, 1)
    IN  CASE v.kind = "missing" ->
                Return(400, "error", << "Missing required key: ", v.key >>)
          [] v.kind = "raise" -> Raise(v.exc)
          [] OTHER ->
                LET s == forecast_summary(data)
                IN  IF s.ok THEN Call(BuildPrompt(s.text)) ELSE Raise(s.exc)

\* a read of the body without the emptiness test of lines 61-62
ReadDataNoEmptyTest(req) ==
    CASE req.body = "malformed" ->
            Raise(Exc("BadRequest",
                      "400 Bad Request: The browser (or proxy) sent a request that this server could not understand."))
      [] req.body = "array" ->
            Raise(Exc("AttributeError", "'list' object has no attribute 'get'"))
      [] req.fd = "number" ->
            Raise(Exc("TypeError", "'int' object is not iterable"))
      [] OTHER -> Prepare(req.entries)

\* request.json.get("forecastData", []) and the emptiness test (lines 59-62)
ReadData(req) ==
    CASE req.body = "malformed" ->
            Raise(Exc("BadRequest",
                      "400 Bad Request: The browser (or proxy) sent a request that this server could not understand."))
      [] req.body = "array" ->
            Raise(Exc("AttributeError", "'list' object has no attribute 'get'"))
      [] req.fd \in {"absent", "empty"} ->
            Return(400, "error", << "No forecast data provided" >>)
      [] req.fd = "number" ->
            Raise(Exc("TypeError", "'int' object is not iterable"))
      [] OTHER -> Prepare(req.entries)

\* a try block that reads and validates the body before it looks at the client
TryBlockReadsBodyFirst(c, req) ==
    IF ReadData(req).kind # "call" THEN ReadData(req)
    ELSE IF c = "None"
    THEN Return(500, "error", << "OpenAI client not initialized" >>)
    ELSE ReadData(req)

\* the try block up to the provider call (lines 54-107)
TryBlock(c, req) ==
    IF c = "None"
    THEN Return(500, "error", << "OpenAI client not initialized" >>)
    ELSE ReadData(req)

(***************************************************************************)
(* The provider's answer and lines 110-123.  A completion is the list of   *)
(* its choices' contents; a content is a text or null.                     *)
(***************************************************************************)
Content(txt) == [isNone |-> FALSE, text |-> txt]
NoneContent == [isNone |-> TRUE, text |-> << >>]

IsSpace(tok) == tok \in {" ", "\n", "\t"}

RECURSIVE LStrip(_)
LStrip(txt) ==
    IF txt # << >> /\ IsSpace(Head(txt)) THEN LStrip(Tail(txt)) ELSE txt

RECURSIVE RStrip(_)
RStrip(txt) ==
    IF txt # << >> /\ IsSpace(txt[Len(txt)])
    THEN RStrip(SubSeq(txt, 1, Len(txt) - 1))
    ELSE txt

\* a strip that forgets the trailing whitespace
StripLeftOnly(txt) == LStrip(txt)

\* str.strip()
Strip(txt) == RStrip(LStrip(txt))

\* the except clause of lines 119-121
InnerExcept(e) == Return(500, "error", << "OpenAI API Error: ", e.msg >>)

\* what response.choices[0].message.content.strip() raises (line 118), if anything
CompletionError(choices) ==
    IF choices = << >> THEN Exc("IndexError", "list index out of range")
    ELSE IF choices[1].isNone
    THEN Exc("AttributeError", "'NoneType' object has no attribute 'strip'")
    ELSE NoExc

\* lines 118-123 once the provider has answered with `choices`
OnCompletion(choices) ==
    IF CompletionError(choices) # NoExc
    THEN InnerExcept(CompletionError(choices))
    ELSE Return(200, "observation", Strip(choices[1].text))

\* lines 119-121 once the provider call has raised e
OnProviderError(e) == InnerExcept(e)

\* an except clause that answers with a fixed text
OuterExceptGeneric(r) ==
    IF r.kind = "raise"
    THEN Return(500, "error", << "Internal Server Error" >>)
    ELSE r

\* an except clause that catches ValueError only
OuterExceptValueErrorOnly(r) ==
    IF r.kind = "raise" /\ r.exc.type = "ValueError"
    THEN Return(500, "error", << "Internal Server Error: ", r.exc.msg >>)
    ELSE r

(***************************************************************************)
(* The except clause of lines 125-129: whatever the try block raised is    *)
(* turned into a response; the trace goes to the log.                      *)
(***************************************************************************)
OuterExcept(r) ==
    IF r.kind = "raise"
    THEN Return(500, "error", << "Internal Server Error: ", r.exc.msg >>)
    ELSE r

\* what lines 120 and 127-128 print
Traceback(e) == << "Traceback (most recent call last):", "\n", e.type, ": ", e.msg >>

OuterLog(r) ==
    IF r.kind = "raise"
    THEN << << "Error in AI Observations API:" >>, Traceback(r.exc) >>
    ELSE << >>

InnerLog(e) == << << "OpenAI API Error: ", e.msg >> >>

\* the response Flask sends for what the view returned; an exception that
\* leaves the view is an unhandled fault
Response(r) ==
    IF r.kind = "return"
    THEN [kind |-> "json", status |-> r.status, field |-> r.field, text |-> r.text]
    ELSE [kind |-> "fault", status |-> 500, field |-> "", text |-> << >>]


(***************************************************************************)
(* The provider's possible answers.                                        *)
(***************************************************************************)
Completions ==
    { << >>,
      << NoneContent >>,
      << Content(<< >>) >>,
      << Content(<< " ", "\n" >>) >>,
      << Content(<< "\n", "## Key Insights", "\n", "- ROI rises", " ", "\n" >>) >>,
      << Content(<< "Insight" >>), Content(<< "Other" >>) >> }

ProviderErrors ==
    { Exc("APIConnectionError", "Connection error."),
      Exc("RateLimitError", "Error code: 429 - quota exceeded") }

NoUpstream == [kind |-> "none", choices |-> << >>, exc |-> NoExc]
Returned(ch) == [kind |-> "returned", choices |-> ch, exc |-> NoExc]
Raised(e) == [kind |-> "raised", choices |-> << >>, exc |-> e]

NoHealth == [kind |-> "none", status |-> 0, field |-> "", text |-> << >>]

(***************************************************************************)
(* State.                                                                  *)
(*   ctor      how AzureOpenAI(...) ended at import: "ok" or "raised"      *)
(*   client    the module-level client: "ready" or "None"                  *)
(*   pc        the handler: "idle", "calling" (blocked in the provider     *)
(*             call) or "done" (the view has returned)                     *)
(*   req       the request being handled                                   *)
(*   upstream  what the provider did for this request                      *)
(*   out       the responses produced for this request                     *)
(*   calls     the provider calls made for this request                    *)
(*   prompt    the user message of the provider call                       *)
(*   log       what was printed while handling this request                *)
(*   failures  provider calls that have raised since startup (saturating)  *)
(*   health    the last response of GET /health                            *)
(***************************************************************************)
VARIABLES ctor, client, pc, req, upstream, out, calls, prompt, log, failures, health

vars == << ctor, client, pc, req, upstream, out, calls, prompt, log, failures, health >>

\* module level, lines 31-39
Init ==
    /\ ctor \in {"ok", "raised"}
    /\ client = IF ctor = "ok" THEN "ready" ELSE "None"
    /\ pc = "idle"
    /\ req = NoReq
    /\ upstream = NoUpstream
    /\ out = << >>
    /\ calls = 0
    /\ prompt = << >>
    /\ log = << >>
    /\ failures = 0
    /\ health = NoHealth

\* generate_ai_observations up to its return or to the provider call (lines 53-117)
HandleRequest(r) ==
    /\ pc = "idle"
    /\ req' = r
    /\ \E b \in {TryBlock(client, r)} :
           IF b.kind = "call"
           THEN /\ pc' = "calling"
                /\ prompt' = b.prompt
                /\ calls' = calls + 1
                /\ out' = out
                /\ log' = log
           ELSE /\ pc' = "done"
                /\ prompt' = prompt
                /\ calls' = calls
                /\ out' = Append(out, Response(OuterExcept(b)))
                /\ log' = log \o OuterLog(b)
    /\ UNCHANGED << ctor, client, upstream, failures, health >>

\* the provider call returns (lines 111-118, 123)
ProviderReturns(ch) ==
    /\ pc = "calling"
    /\ upstream' = Returned(ch)
    /\ out' = Append(out, Response(OuterExcept(OnCompletion(ch))))
    /\ log' = IF CompletionError(ch) # NoExc
              THEN log \o InnerLog(CompletionError(ch))
              ELSE log
    /\ pc' = "done"
    /\ UNCHANGED << ctor, client, req, calls, prompt, failures, health >>

\* an upstream failure that disables the client for the requests to come
ProviderRaisesDropsClient(e) ==
    /\ pc = "calling"
    /\ upstream' = Raised(e)
    /\ out' = Append(out, Response(OuterExcept(OnProviderError(e))))
    /\ log' = log \o InnerLog(e)
    /\ failures' = IF failures < MaxFailures THEN failures + 1 ELSE failures
    /\ pc' = "done"
    /\ client' = "None"
    /\ UNCHANGED << ctor, req, calls, prompt, health >>

\* an upstream failure that is retried once before it is reported
ProviderRaisesRetries(e) ==
    /\ pc = "calling"
    /\ upstream' = Raised(e)
    /\ log' = log \o InnerLog(e)
    /\ failures' = IF failures < MaxFailures THEN failures + 1 ELSE failures
    /\ IF calls < 2
       THEN /\ calls' = calls + 1
            /\ out' = out
            /\ pc' = "calling"
       ELSE /\ calls' = calls
            /\ out' = Append(out, Response(OuterExcept(OnProviderError(e))))
            /\ pc' = "done"
    /\ UNCHANGED << ctor, client, req, prompt, health >>

\* the provider call raises (lines 119-121)
ProviderRaises(e) ==
    /\ pc = "calling"
    /\ upstream' = Raised(e)
    /\ out' = Append(out, Response(OuterExcept(OnProviderError(e))))
    /\ log' = log \o InnerLog(e)
    /\ failures' = IF failures < MaxFailures THEN failures + 1 ELSE failures
    /\ pc' = "done"
    /\ UNCHANGED << ctor, client, req, calls, prompt, health >>

\* the response is sent; the next request starts from nothing of this one
Deliver ==
    /\ pc = "done"
    /\ pc' = "idle"
    /\ req' = NoReq
    /\ upstream' = NoUpstream
    /\ out' = << >>
    /\ calls' = 0
    /\ prompt' = << >>
    /\ log' = << >>
    /\ UNCHANGED << ctor, client, failures, health >>

\* a health check that reports the state of the client
health_check_of_client ==
    IF client = "ready"
    THEN [kind |-> "json", status |-> 200, field |-> "status", text |-> << "healthy" >>]
    ELSE [kind |-> "json", status |-> 503, field |-> "status", text |-> << "unhealthy" >>]

\* the body of health_check (line 134)
health_check ==
    [kind |-> "json", status |-> 200, field |-> "status", text |-> << "healthy" >>]

\* GET /health, at any time (lines 131-134)
HealthCheck ==
    /\ health' = health_check
    /\ UNCHANGED << ctor, client, pc, req, upstream, out, calls, prompt, log, failures >>

Next ==
    \/ \E r \in Requests : HandleRequest(r)
    \/ \E ch \in Completions : ProviderReturns(ch)
    \/ \E e \in ProviderErrors : ProviderRaises(e)
    \/ Deliver
    \/ HealthCheck

Spec == Init /\ [][Next]_vars


(***************************************************************************)
(* Vocabulary of the properties.                                           *)
(***************************************************************************)
Done == pc = "done"

\* the view has returned exactly one JSON response with this status and field
Answered(st, fld) ==
    /\ Len(out) = 1
    /\ out[1].kind = "json"
    /\ out[1].status = st
    /\ out[1].field = fld

NKeys == Len(required_keys)

\* the request body is a JSON object whose forecastData is a non-empty list
HasList(r) == r.body = "object" /\ r.fd = "list" /\ r.entries # << >>

\* entry e carries all nine required fields
Complete(e) == e.kind = "obj" /\ Keys \subseteq e.keys

\* entry e lacks the field k
Lacks(e, k) == k \notin e.keys

\* field j of entry i is the first missing one in scan order
FirstMissingAt(data, i, j) ==
    /\ Lacks(data[i], required_keys[j])
    /\ \A jj \in 1..(j - 1) : ~Lacks(data[i], required_keys[jj])
    /\ \A ii \in 1..(i - 1) : \A jj \in 1..NKeys : ~Lacks(data[ii], required_keys[jj])

\* the membership test is defined on every entry and finds every key
ValidationPasses(r) ==
    /\ HasList(r)
    /\ \A i \in 1..Len(r.entries) :
          r.entries[i].kind # "scalar" /\ Keys \subseteq r.entries[i].keys

\* every entry is an object whose eight currency values are numbers
Renderable(r) ==
    \A i \in 1..Len(r.entries) :
       /\ r.entries[i].kind = "obj"
       /\ \A j \in 2..NKeys : r.entries[i].vals[required_keys[j]].t \in {"int", "dec"}

\* tok occurs in the text
Occurs(tok, txt) == \E k \in 1..Len(txt) : txt[k] = tok

\* the text between the fixed head and tail of the prompt
SummaryOf(p) == SubSeq(p, Len(PromptHead) + 1, Len(p) - Len(PromptTail))

\* the lines of a text: what stands between its newline tokens
RECURSIVE SplitLines(_, _, _)
SplitLines(txt, cur, acc) ==
    IF txt = << >> THEN Append(acc, cur)
    ELSE IF Head(txt) = "\n" THEN SplitLines(Tail(txt), << >>, Append(acc, cur))
    ELSE SplitLines(Tail(txt), Append(cur, Head(txt)), acc)

Lines(txt) == SplitLines(txt, << >>, << >>)


(***************************************************************************)
(* C1.  As stated: whenever the client is initialized, every entry of a    *)
(* non-empty forecastData carries all nine fields and the provider call    *)
(* succeeds, the response is 200 {"observation": s} with s non-empty.      *)
(* The code relays what the provider returned, stripped: a completion      *)
(* whose text is empty or all whitespace gives an empty observation.       *)
(***************************************************************************)
C1_Precondition ==
    /\ Done
    /\ client = "ready"
    /\ HasList(req)
    /\ \A i \in 1..Len(req.entries) : Complete(req.entries[i])
    /\ upstream.kind = "returned"
    /\ upstream.choices # << >>
    /\ ~upstream.choices[1].isNone

C1_AsStated ==
    C1_Precondition => Answered(200, "observation") /\ out[1].text # << >>

\* C1, amended: the response is 200 {"observation": s} where s is the
\* content c of the completion's first choice without its leading and
\* trailing whitespace; s is non-empty exactly when c holds something other
\* than whitespace.
C1_Observation ==
    C1_Precondition
        => LET c == upstream.choices[1].text
               t == out[1].text
           IN  /\ Answered(200, "observation")
               /\ \E a \in 0..Len(c) : \E b \in a..Len(c) :
                     /\ t = SubSeq(c, a + 1, b)
                     /\ \A k \in 1..a : IsSpace(c[k])
                     /\ \A k \in (b + 1)..Len(c) : IsSpace(c[k])
               /\ t # << >> => ~IsSpace(t[1]) /\ ~IsSpace(t[Len(t)])
               /\ (t # << >>) <=> (\E k \in 1..Len(c) : ~IsSpace(c[k]))

C1_Witness ==
    /\ C1_Precondition
    /\ Len(req.entries) = 2
    /\ upstream.choices = << Content(<< "\n", "## Key Insights", "\n", "- ROI rises", " ", "\n" >>) >>
    /\ Answered(200, "observation")
    /\ out[1].text = << "## Key Insights", "\n", "- ROI rises" >>

(***************************************************************************)
(* C2.  As stated: whenever the client is initialized and some entry of    *)
(* forecastData lacks a required field, the response is 400 "Missing       *)
(* required key: K", K the first missing field in scan order (entries in   *)
(* input order, keys in the order of required_keys).  An entry that is a   *)
(* number, boolean or null makes the membership test raise, so a request   *)
(* whose scan meets such an entry first is answered 500.                   *)
(***************************************************************************)
C2_Precondition ==
    /\ Done
    /\ client = "ready"
    /\ HasList(req)
    /\ \E i \in 1..Len(req.entries) : \E j \in 1..NKeys :
          Lacks(req.entries[i], required_keys[j])

\* some entry that is a JSON object lacks a required field
C2_ObjectLacksField ==
    \E i \in 1..Len(req.entries) :
       req.entries[i].kind = "obj" /\ ~(Keys \subseteq req.entries[i].keys)

C2_AsStated ==
    (C2_Precondition /\ C2_ObjectLacksField) =>
        \E i \in 1..Len(req.entries) : \E j \in 1..NKeys :
           /\ FirstMissingAt(req.entries, i, j)
           /\ Answered(400, "error")
           /\ out[1].text = << "Missing required key: ", required_keys[j] >>

\* C2, amended: the same, provided the first entry that lacks a field is a
\* JSON object, array or string; when it is a number, boolean or null the
\* response is the 500 internal error and names no key.
C2_FirstMissingKey ==
    C2_Precondition =>
        \E i \in 1..Len(req.entries) : \E j \in 1..NKeys :
           /\ FirstMissingAt(req.entries, i, j)
           /\ IF req.entries[i].kind # "scalar"
              THEN /\ Answered(400, "error")
                   /\ out[1].text = << "Missing required key: ", required_keys[j] >>
              ELSE /\ Answered(500, "error")
                   /\ out[1].text[1] = "Internal Server Error: "

C2_Witness ==
    /\ C2_Precondition
    /\ Len(req.entries) = 2
    /\ Complete(req.entries[1])
    /\ req.entries[2].kind = "obj"
    /\ req.entries[2].keys = Keys \ {"investment", "savings"}
    /\ Answered(400, "error")
    /\ out[1].text = << "Missing required key: ", "investment" >>

AnswerOf(c, r, u) ==
    LET b == TryBlock(c, r)
    IN  CASE b.kind # "call" -> Response(OuterExcept(b))
          [] u.kind = "returned" -> Response(OuterExcept(OnCompletion(u.choices)))
          [] OTHER -> Response(OuterExcept(OnProviderError(u.exc)))

C4_UpstreamFailure ==
    /\ client = (IF ctor = "ok" THEN "ready" ELSE "None")
    /\ (Done /\ upstream.kind = "raised")
          => /\ Answered(500, "error")
             /\ Occurs(upstream.exc.msg, out[1].text)
    /\ Done => out = << AnswerOf(IF ctor = "ok" THEN "ready" ELSE "None", req, upstream) >>

C4_Witness ==
    /\ Done
    /\ failures >= 1
    /\ upstream.kind = "returned"
    /\ Answered(200, "observation")

(***************************************************************************)
(* C5.  When the client is None, every request gets 500 "OpenAI client     *)
(* not initialized", whatever its body (malformed, empty data, missing     *)
(* field, valid), and no provider call is made.                            *)
(***************************************************************************)
C5_ClientUnavailable ==
    client = "None" =>
        /\ calls = 0
        /\ pc # "calling"
        /\ upstream = NoUpstream
        /\ Done => /\ Answered(500, "error")
                   /\ out[1].text = << "OpenAI client not initialized" >>
                   /\ log = << >>

C5_Witness ==
    /\ Done
    /\ client = "None"
    /\ req.body = "malformed"
    /\ Answered(500, "error")


(***************************************************************************)
(* C6.  An unexpected failure is one the except clause of line 125         *)
(* catches: it prints "Error in AI Observations API:" and the trace.  As   *)
(* stated: the response is then 500 with a generic message, and the        *)
(* exception's own text is not in the response body.  The code answers     *)
(* f"Internal Server Error: {str(e)}": the exception's text is returned.   *)
(***************************************************************************)
UnexpectedFailure ==
    /\ Done
    /\ Len(log) = 2
    /\ log[1] = << "Error in AI Observations API:" >>

\* str(e) and the class of the exception, as the logged trace has them
LoggedMessage == log[2][Len(log[2])]
LoggedClass == log[2][3]

C6_AsStated ==
    UnexpectedFailure =>
        /\ Answered(500, "error")
        /\ ~Occurs(LoggedMessage, out[1].text)

\* C6, amended: the response is 500 with the error "Internal Server Error: "
\* followed by the exception's own message text; the stack trace and the
\* exception's class are logged server-side and are not in the response.
\* A body that is not a JSON object, an entry that is not a mapping and a
\* currency value that is not a number are such failures.
C6_InternalError ==
    /\ UnexpectedFailure =>
          /\ Answered(500, "error")
          /\ out[1].text = << "Internal Server Error: ", LoggedMessage >>
          /\ ~Occurs("Traceback (most recent call last):", out[1].text)
          /\ ~Occurs(LoggedClass, out[1].text)
          /\ calls = 0
    /\ (/\ Done
        /\ client = "ready"
        /\ \/ req.body \in {"malformed", "array"}
           \/ req.body = "object" /\ req.fd = "number"
           \/ /\ HasList(req)
              /\ \A i \in 1..Len(req.entries) : Keys \subseteq req.entries[i].keys
              /\ ~Renderable(req))
          => UnexpectedFailure

C6_Witness ==
    /\ UnexpectedFailure
    /\ HasList(req)
    /\ req.entries = << Obj(Keys, Row2), Obj(Keys, RowStr) >>
    /\ out[1].text = << "Internal Server Error: ", "Unknown format code 'f' for object of type 'str'" >>
    /\ LoggedClass = "ValueError"

(***************************************************************************)
(* C7.  Every request ends with exactly one JSON response: 200 with an     *)
(* observation field, or 400 or 500 with an error field; nothing leaves    *)
(* the handler as an unhandled fault, and no response exists before the    *)
(* handler has returned.                                                   *)
(***************************************************************************)
C7_OneJsonResponse ==
    /\ Done =>
          /\ Len(out) = 1
          /\ out[1].kind = "json"
          /\ \/ out[1].status = 200 /\ out[1].field = "observation"
             \/ out[1].status \in {400, 500} /\ out[1].field = "error"
    /\ ~Done => out = << >>

C7_Witness ==
    /\ Done
    /\ client = "ready"
    /\ HasList(req)
    /\ req.entries[1].kind = "scalar"
    /\ Len(out) = 1
    /\ out[1].kind = "json"
    /\ out[1].status = 500

(***************************************************************************)
(* C8.  As stated: a request causes at most one provider call; exactly one *)
(* when the client is available and validation passes, none when the       *)
(* request is rejected; the call follows validation and is not repeated    *)
(* after a provider failure.  A request that passes validation but whose   *)
(* summary cannot be rendered (an entry that is not a mapping, a currency  *)
(* value that is not a number) causes no call.                             *)
(***************************************************************************)
C8_AsStated ==
    /\ calls <= 1
    /\ pc \in {"calling", "done"} =>
          calls = (IF client = "ready" /\ ValidationPasses(req) THEN 1 ELSE 0)

\* C8, amended: exactly one call when the client is available, validation
\* passes and every entry renders (a mapping whose eight currency values
\* are numbers); none in every other case; never a second call, also not
\* after the provider has raised.
C8_OneCall ==
    /\ calls <= 1
    /\ pc \in {"calling", "done"} =>
          calls = (IF client = "ready" /\ ValidationPasses(req) /\ Renderable(req)
                   THEN 1 ELSE 0)
    /\ upstream.kind # "none" => calls = 1
    /\ pc = "idle" => calls = 0

C8_Witness ==
    /\ Done
    /\ upstream.kind = "raised"
    /\ ValidationPasses(req)
    /\ calls = 1

(***************************************************************************)
(* C9.  GET /health answers 200 with status "healthy" in every state:      *)
(* with the client constructed or None, and whatever requests were         *)
(* handled before.                                                         *)
(***************************************************************************)
C9_Healthy ==
    health # NoHealth =>
        /\ health.kind = "json"
        /\ health.status = 200
        /\ health.field = "status"
        /\ health.text = << "healthy" >>

C9_Witness ==
    /\ health # NoHealth
    /\ client = "None"
    /\ Done
    /\ health.status = 200

(***************************************************************************)
(* C10.  For a valid forecast sequence of n entries (the years in the      *)
(* model are integers), the summary embedded in the prompt sent to the     *)
(* provider has exactly n lines separated by single newlines, and line i   *)
(* is the rendering of entry i: it starts with "Year " and entry i's year. *)
(***************************************************************************)
C10_OrderPreserved ==
    calls = 1 =>
        LET ls == Lines(SummaryOf(prompt))
        IN  /\ Len(ls) = Len(req.entries)
            /\ \A i \in 1..Len(ls) :
                  /\ Len(ls[i]) = 2 * NKeys
                  /\ ls[i][1] = "Year "
                  /\ ls[i][2] = ToString(req.entries[i].vals["year"].c)
                  /\ \A j \in 2..NKeys :
                        /\ ls[i][2 * j - 1] = Label[j]
                        /\ Format2f(req.entries[i].vals[required_keys[j]]).text = ls[i][2 * j]

C10_Witness ==
    /\ calls = 1
    /\ req.entries = << Obj(Keys, Row2), Obj(Keys, Row1) >>
    /\ Lines(SummaryOf(prompt))[1][2] = "2"
    /\ Lines(SummaryOf(prompt))[2][2] = "1"

=============================================================================
